---------------------------- MODULE Spec2Model ----------------------------
(***************************************************************************)
(* DocumentService.processQueries (src/src/services/DocumentService.ts):   *)
(* the query dispatcher of intelidoc-assist.  One invocation builds one    *)
(* batched request, arms a 30 second timer that aborts it, awaits the      *)
(* response and its JSON body, and maps the answers to QueryResult         *)
(* records; every exception raised on the way is caught and replaced by    *)
(* the keyword-matched demo responses of getEnhancedMockResponses.         *)
(*                                                                         *)
(* Representation.  A JavaScript string is the sequence of its characters  *)
(* (one-character strings), so that toLowerCase, includes, the digit       *)
(* test and length work on the text itself.  A JavaScript value is a       *)
(* record [t |-> type, s |-> String(value)]; the answers field of a        *)
(* parsed body also has a, the elements of an array.  Array positions are  *)
(* 1-based here: position k is JavaScript index k-1.  A confidence is      *)
(* kept in hundredths (0.92 is 92): every confidence of the code is one    *)
(* of the literals 0.1, 0.6, 0.7, 0.85 .. 0.95 or the sums 0.6+0.2 = 0.8  *)
(* and 0.8+0.2 = 1.0, which IEEE doubles compute to the literals 0.8 and   *)
(* 1.0.                                                                    *)
(***************************************************************************)
EXTENDS Integers, Sequences, FiniteSets, TLC

(***************************************************************************)
(* String literals of the source, character by character.                  *)
(***************************************************************************)
\* DocumentService.ts:59 'No answer provided'
NO_ANSWER ==
  <<
   "N","o"," ","a","n","s","w","e","r"," ","p","r","o","v","i","d","e","d" >>

\* DocumentService.ts:97
NO_INFORMATION ==
  <<
   "U","n","a","b","l","e"," ","t","o"," ","f","i","n","d"," ","r","e","l","e","v","a","n","t",
   " ","i","n","f","o","r","m","a","t","i","o","n"," ","i","n"," ","t","h","e"," ","p","r","o",
   "v","i","d","e","d"," ","d","o","c","u","m","e","n","t","s","." >>

\* DocumentService.ts:100, the template before ${question.toLowerCase()}
REASONING_HEAD ==
  <<
   "B","a","s","e","d"," ","o","n"," ","s","e","m","a","n","t","i","c"," ","a","n","a","l","y",
   "s","i","s"," ","o","f"," ","t","h","e"," ","d","o","c","u","m","e","n","t"," ","c","o","n",
   "t","e","n","t",","," ","t","h","i","s"," ","a","n","s","w","e","r"," ","w","a","s"," ","e",
   "x","t","r","a","c","t","e","d"," ","f","r","o","m"," ","p","o","l","i","c","y"," ","c","l",
   "a","u","s","e","s"," ","t","h","a","t"," ","d","i","r","e","c","t","l","y"," ","a","d","d",
   "r","e","s","s"," ","t","h","e"," ","q","u","e","r","y"," ","a","b","o","u","t"," ","\"" >>

\* DocumentService.ts:100, the template after ${question.toLowerCase()}
REASONING_TAIL ==
  <<
   "\"","."," ","T","h","e"," ","r","e","s","p","o","n","s","e"," ","i","n","c","l","u","d","e",
   "s"," ","s","p","e","c","i","f","i","c"," ","t","e","r","m","s"," ","a","n","d"," ","c","o",
   "n","d","i","t","i","o","n","s"," ","m","e","n","t","i","o","n","e","d"," ","i","n"," ","t",
   "h","e"," ","o","r","i","g","i","n","a","l"," ","d","o","c","u","m","e","n","t","." >>

\* DocumentService.ts:26, the sample document substituted for a falsy documentUrl
SAMPLE_DOCUMENT ==
  <<
   "h","t","t","p","s",":","/","/","h","a","c","k","r","x",".","b","l","o","b",".","c","o","r",
   "e",".","w","i","n","d","o","w","s",".","n","e","t","/","a","s","s","e","t","s","/","p","o",
   "l","i","c","y",".","p","d","f","?","s","v","=","2","0","2","3","-","0","1","-","0","3","&",
   "s","t","=","2","0","2","5","-","0","7","-","0","4","T","0","9","%","3","A","1","1","%","3",
   "A","2","4","Z","&","s","e","=","2","0","2","7","-","0","7","-","0","5","T","0","9","%","3",
   "A","1","1","%","3","A","0","0","Z","&","s","r","=","b","&","s","p","=","r","&","s","i","g",
   "=","N","4","a","9","O","U","0","w","0","Q","X","O","6","A","O","I","B","i","u","4","b","p",
   "l","7","A","X","v","E","Z","o","g","e","T","%","2","F","j","U","H","N","O","7","H","z","Q",
   "%","3","D" >>

\* DocumentService.ts:129
ANSWER_GRACE ==
  <<
   "A"," ","g","r","a","c","e"," ","p","e","r","i","o","d"," ","o","f"," ","t","h","i","r","t",
   "y"," ","d","a","y","s"," ","i","s"," ","p","r","o","v","i","d","e","d"," ","f","o","r"," ",
   "p","r","e","m","i","u","m"," ","p","a","y","m","e","n","t"," ","a","f","t","e","r"," ","t",
   "h","e"," ","d","u","e"," ","d","a","t","e"," ","t","o"," ","r","e","n","e","w"," ","o","r",
   " ","c","o","n","t","i","n","u","e"," ","t","h","e"," ","p","o","l","i","c","y"," ","w","i",
   "t","h","o","u","t"," ","l","o","s","i","n","g"," ","c","o","n","t","i","n","u","i","t","y",
   " ","b","e","n","e","f","i","t","s","." >>

\* DocumentService.ts:136
ANSWER_MATERNITY ==
  <<
   "Y","e","s",","," ","t","h","e"," ","p","o","l","i","c","y"," ","c","o","v","e","r","s"," ",
   "m","a","t","e","r","n","i","t","y"," ","e","x","p","e","n","s","e","s",","," ","i","n","c",
   "l","u","d","i","n","g"," ","c","h","i","l","d","b","i","r","t","h"," ","a","n","d"," ","l",
   "a","w","f","u","l"," ","m","e","d","i","c","a","l"," ","t","e","r","m","i","n","a","t","i",
   "o","n"," ","o","f"," ","p","r","e","g","n","a","n","c","y","."," ","T","o"," ","b","e"," ",
   "e","l","i","g","i","b","l","e",","," ","t","h","e"," ","f","e","m","a","l","e"," ","i","n",
   "s","u","r","e","d"," ","p","e","r","s","o","n"," ","m","u","s","t"," ","h","a","v","e"," ",
   "b","e","e","n"," ","c","o","n","t","i","n","u","o","u","s","l","y"," ","c","o","v","e","r",
   "e","d"," ","f","o","r"," ","a","t"," ","l","e","a","s","t"," ","2","4"," ","m","o","n","t",
   "h","s","."," ","T","h","e"," ","b","e","n","e","f","i","t"," ","i","s"," ","l","i","m","i",
   "t","e","d"," ","t","o"," ","t","w","o"," ","d","e","l","i","v","e","r","i","e","s"," ","o",
   "r"," ","t","e","r","m","i","n","a","t","i","o","n","s"," ","d","u","r","i","n","g"," ","t",
   "h","e"," ","p","o","l","i","c","y"," ","p","e","r","i","o","d","." >>

\* DocumentService.ts:143
ANSWER_WAITING ==
  <<
   "T","h","e","r","e"," ","i","s"," ","a"," ","w","a","i","t","i","n","g"," ","p","e","r","i",
   "o","d"," ","o","f"," ","t","h","i","r","t","y","-","s","i","x"," ","(","3","6",")"," ","m",
   "o","n","t","h","s"," ","o","f"," ","c","o","n","t","i","n","u","o","u","s"," ","c","o","v",
   "e","r","a","g","e"," ","f","r","o","m"," ","t","h","e"," ","f","i","r","s","t"," ","p","o",
   "l","i","c","y"," ","i","n","c","e","p","t","i","o","n"," ","f","o","r"," ","p","r","e","-",
   "e","x","i","s","t","i","n","g"," ","d","i","s","e","a","s","e","s"," ","a","n","d"," ","t",
   "h","e","i","r"," ","d","i","r","e","c","t"," ","c","o","m","p","l","i","c","a","t","i","o",
   "n","s"," ","t","o"," ","b","e"," ","c","o","v","e","r","e","d","." >>

\* DocumentService.ts:150
ANSWER_ROOM ==
  <<
   "Y","e","s",","," ","f","o","r"," ","P","l","a","n"," ","A",","," ","t","h","e"," ","d","a",
   "i","l","y"," ","r","o","o","m"," ","r","e","n","t"," ","i","s"," ","c","a","p","p","e","d",
   " ","a","t"," ","1","%"," ","o","f"," ","t","h","e"," ","S","u","m"," ","I","n","s","u","r",
   "e","d",","," ","a","n","d"," ","I","C","U"," ","c","h","a","r","g","e","s"," ","a","r","e",
   " ","c","a","p","p","e","d"," ","a","t"," ","2","%"," ","o","f"," ","t","h","e"," ","S","u",
   "m"," ","I","n","s","u","r","e","d","."," ","T","h","e","s","e"," ","l","i","m","i","t","s",
   " ","d","o"," ","n","o","t"," ","a","p","p","l","y"," ","i","f"," ","t","h","e"," ","t","r",
   "e","a","t","m","e","n","t"," ","i","s"," ","t","a","k","e","n"," ","i","n"," ","a"," ","P",
   "r","e","f","e","r","r","e","d"," ","P","r","o","v","i","d","e","r"," ","N","e","t","w","o",
   "r","k"," ","(","P","P","N",")","." >>

\* DocumentService.ts:157
ANSWER_NCD ==
  <<
   "A"," ","N","o"," ","C","l","a","i","m"," ","D","i","s","c","o","u","n","t"," ","o","f"," ",
   "5","%"," ","o","n"," ","t","h","e"," ","b","a","s","e"," ","p","r","e","m","i","u","m"," ",
   "i","s"," ","o","f","f","e","r","e","d"," ","o","n"," ","r","e","n","e","w","a","l"," ","f",
   "o","r"," ","a"," ","o","n","e","-","y","e","a","r"," ","p","o","l","i","c","y"," ","t","e",
   "r","m"," ","i","f"," ","n","o"," ","c","l","a","i","m","s"," ","w","e","r","e"," ","m","a",
   "d","e"," ","i","n"," ","t","h","e"," ","p","r","e","c","e","d","i","n","g"," ","y","e","a",
   "r","."," ","T","h","e"," ","m","a","x","i","m","u","m"," ","a","g","g","r","e","g","a","t",
   "e"," ","N","C","D"," ","i","s"," ","c","a","p","p","e","d"," ","a","t"," ","5","%"," ","o",
   "f"," ","t","h","e"," ","t","o","t","a","l"," ","b","a","s","e"," ","p","r","e","m","i","u",
   "m","." >>

\* DocumentService.ts:164
ANSWER_CATARACT ==
  <<
   "T","h","e"," ","p","o","l","i","c","y"," ","h","a","s"," ","a"," ","s","p","e","c","i","f",
   "i","c"," ","w","a","i","t","i","n","g"," ","p","e","r","i","o","d"," ","o","f"," ","t","w",
   "o"," ","(","2",")"," ","y","e","a","r","s"," ","f","o","r"," ","c","a","t","a","r","a","c",
   "t"," ","s","u","r","g","e","r","y"," ","f","r","o","m"," ","t","h","e"," ","p","o","l","i",
   "c","y"," ","i","n","c","e","p","t","i","o","n"," ","d","a","t","e","." >>

\* DocumentService.ts:171
ANSWER_AYUSH ==
  <<
   "T","h","e"," ","p","o","l","i","c","y"," ","c","o","v","e","r","s"," ","m","e","d","i","c",
   "a","l"," ","e","x","p","e","n","s","e","s"," ","f","o","r"," ","i","n","p","a","t","i","e",
   "n","t"," ","t","r","e","a","t","m","e","n","t"," ","u","n","d","e","r"," ","A","y","u","r",
   "v","e","d","a",","," ","Y","o","g","a",","," ","N","a","t","u","r","o","p","a","t","h","y",
   ","," ","U","n","a","n","i",","," ","S","i","d","d","h","a",","," ","a","n","d"," ","H","o",
   "m","e","o","p","a","t","h","y"," ","s","y","s","t","e","m","s"," ","u","p"," ","t","o"," ",
   "t","h","e"," ","S","u","m"," ","I","n","s","u","r","e","d"," ","l","i","m","i","t",","," ",
   "p","r","o","v","i","d","e","d"," ","t","h","e"," ","t","r","e","a","t","m","e","n","t"," ",
   "i","s"," ","t","a","k","e","n"," ","i","n"," ","a","n"," ","A","Y","U","S","H"," ","H","o",
   "s","p","i","t","a","l","." >>

\* DocumentService.ts:178
ANSWER_DEFAULT ==
  <<
   "B","a","s","e","d"," ","o","n"," ","t","h","e"," ","p","o","l","i","c","y"," ","d","o","c",
   "u","m","e","n","t"," ","a","n","a","l","y","s","i","s",","," ","t","h","i","s"," ","q","u",
   "e","r","y"," ","r","e","q","u","i","r","e","s"," ","s","p","e","c","i","f","i","c"," ","c",
   "l","a","u","s","e"," ","v","e","r","i","f","i","c","a","t","i","o","n","."," ","P","l","e",
   "a","s","e"," ","r","e","f","e","r"," ","t","o"," ","t","h","e"," ","d","e","t","a","i","l",
   "e","d"," ","p","o","l","i","c","y"," ","t","e","r","m","s"," ","a","n","d"," ","c","o","n",
   "d","i","t","i","o","n","s"," ","f","o","r"," ","c","o","m","p","r","e","h","e","n","s","i",
   "v","e"," ","c","o","v","e","r","a","g","e"," ","i","n","f","o","r","m","a","t","i","o","n",
   "." >>

\* DocumentService.ts:127
KW_GRACE_PERIOD ==
  <<
   "g","r","a","c","e"," ","p","e","r","i","o","d" >>

\* DocumentService.ts:127
KW_PREMIUM_PAYMENT ==
  <<
   "p","r","e","m","i","u","m"," ","p","a","y","m","e","n","t" >>

\* DocumentService.ts:134
KW_MATERNITY ==
  <<
   "m","a","t","e","r","n","i","t","y" >>

\* DocumentService.ts:134
KW_PREGNANCY ==
  <<
   "p","r","e","g","n","a","n","c","y" >>

\* DocumentService.ts:141
KW_WAITING_PERIOD ==
  <<
   "w","a","i","t","i","n","g"," ","p","e","r","i","o","d" >>

\* DocumentService.ts:141
KW_PRE_EXISTING ==
  <<
   "p","r","e","-","e","x","i","s","t","i","n","g" >>

\* DocumentService.ts:148
KW_ROOM_RENT ==
  <<
   "r","o","o","m"," ","r","e","n","t" >>

\* DocumentService.ts:148
KW_ICU ==
  <<
   "i","c","u" >>

\* DocumentService.ts:148
KW_SUB_LIMIT ==
  <<
   "s","u","b","-","l","i","m","i","t" >>

\* DocumentService.ts:155
KW_NO_CLAIM_DISCOUNT ==
  <<
   "n","o"," ","c","l","a","i","m"," ","d","i","s","c","o","u","n","t" >>

\* DocumentService.ts:155
KW_NCD ==
  <<
   "n","c","d" >>

\* DocumentService.ts:162
KW_CATARACT ==
  <<
   "c","a","t","a","r","a","c","t" >>

\* DocumentService.ts:162
KW_SURGERY ==
  <<
   "s","u","r","g","e","r","y" >>

\* DocumentService.ts:169
KW_AYUSH ==
  <<
   "a","y","u","s","h" >>

\* DocumentService.ts:169
KW_ALTERNATIVE_MEDICINE ==
  <<
   "a","l","t","e","r","n","a","t","i","v","e"," ","m","e","d","i","c","i","n","e" >>

\* DocumentService.ts:72
FAILED_TO_FETCH ==
  <<
   "F","a","i","l","e","d"," ","t","o"," ","f","e","t","c","h" >>

\* DocumentService.ts:85
PERCENT ==
  <<
   "%" >>

\* DocumentService.ts:85
MONTHS ==
  <<
   "m","o","n","t","h","s" >>

\* DocumentService.ts:85
YEARS ==
  <<
   "y","e","a","r","s" >>

\* DocumentService.ts:51, the message before ${response.status}
API_REQUEST_FAILED ==
  <<
   "A","P","I"," ","r","e","q","u","e","s","t"," ","f","a","i","l","e","d",":"," " >>

\* a question naming two keyword groups, in mixed case
Q_GRACE_MATERNITY ==
  <<
   "G","r","a","c","e"," ","P","e","r","i","o","d"," ","o","r"," ","M","A","T","E","R","N","I",
   "T","Y"," ","c","o","v","e","r","?" >>

\* a question naming no keyword group
Q_DENTAL ==
  <<
   "I","s"," ","d","e","n","t","a","l"," ","c","a","r","e"," ","c","o","v","e","r","e","d","?" >>

\* one question per keyword of lines 127-169, in lower case, upper case or
\* capitalised, and questions that name two groups, the later group first
KeywordQuestions ==
  {<<
      "W","h","a","t"," ","a","b","o","u","t"," ","g","r","a","c","e"," ","p","e","r","i","o","d",
      "?" >>,
   <<
      "I","s"," ","P","R","E","M","I","U","M"," ","P","A","Y","M","E","N","T"," ","c","o","v","e",
      "r","e","d","?" >>,
   <<
      "W","h","a","t"," ","a","b","o","u","t"," ","M","a","t","e","r","n","i","t","y","?" >>,
   <<
      "I","s"," ","p","r","e","g","n","a","n","c","y"," ","c","o","v","e","r","e","d","?" >>,
   <<
      "W","h","a","t"," ","a","b","o","u","t"," ","W","A","I","T","I","N","G"," ","P","E","R","I",
      "O","D","?" >>,
   <<
      "I","s"," ","P","r","e","-","E","x","i","s","t","i","n","g"," ","c","o","v","e","r","e","d",
      "?" >>,
   <<
      "W","h","a","t"," ","a","b","o","u","t"," ","r","o","o","m"," ","r","e","n","t","?" >>,
   <<
      "I","s"," ","I","C","U"," ","c","o","v","e","r","e","d","?" >>,
   <<
      "W","h","a","t"," ","a","b","o","u","t"," ","S","u","b","-","L","i","m","i","t","?" >>,
   <<
      "I","s"," ","n","o"," ","c","l","a","i","m"," ","d","i","s","c","o","u","n","t"," ","c","o",
      "v","e","r","e","d","?" >>,
   <<
      "W","h","a","t"," ","a","b","o","u","t"," ","N","C","D","?" >>,
   <<
      "I","s"," ","C","a","t","a","r","a","c","t"," ","c","o","v","e","r","e","d","?" >>,
   <<
      "W","h","a","t"," ","a","b","o","u","t"," ","s","u","r","g","e","r","y","?" >>,
   <<
      "I","s"," ","A","Y","U","S","H"," ","c","o","v","e","r","e","d","?" >>,
   <<
      "W","h","a","t"," ","a","b","o","u","t"," ","A","l","t","e","r","n","a","t","i","v","e"," ",
      "M","e","d","i","c","i","n","e","?" >>,
   <<
      "M","A","T","E","R","N","I","T","Y"," ","l","e","a","v","e",","," ","t","h","e","n"," ","G",
      "R","A","C","E"," ","P","E","R","I","O","D" >>,
   <<
      "S","u","r","g","e","r","y"," ","a","f","t","e","r"," ","t","h","e"," ","W","a","i","t","i",
      "n","g"," ","P","e","r","i","o","d","?" >>,
   <<
      "A","y","u","s","h"," ","i","n"," ","a"," ","r","o","o","m"," ","r","e","n","t"," ","p","l",
      "a","n" >>,
   <<
      "N","C","D"," ","o","n"," ","P","r","e","g","n","a","n","c","y"," ","c","o","v","e","r" >>,
   <<
      "a","l","t","e","r","n","a","t","i","v","e"," ","m","e","d","i","c","i","n","e"," ","f","o",
      "r"," ","C","a","t","a","r","a","c","t" >>}

\* a question that names maternity before grace period, in upper case
Q_MATERNITY_THEN_GRACE ==
  <<
   "M","A","T","E","R","N","I","T","Y"," ","l","e","a","v","e",","," ","t","h","e","n"," ","G",
   "R","A","C","E"," ","P","E","R","I","O","D" >>

\* a short remote answer
A_X ==
  <<
   "X" >>

\* a remote answer of 101 characters that holds digits
A_LONG ==
  <<
   "P","r","e","-","e","x","i","s","t","i","n","g"," ","d","i","s","e","a","s","e","s"," ","a",
   "r","e"," ","c","o","v","e","r","e","d"," ","a","f","t","e","r"," ","3","6"," ","m","o","n",
   "t","h","s"," ","o","f"," ","c","o","n","t","i","n","u","o","u","s"," ","c","o","v","e","r",
   "a","g","e",","," ","c","o","u","n","t","e","d"," ","f","r","o","m"," ","t","h","e"," ","f",
   "i","r","s","t"," ","d","a","y","." >>

\* a short remote answer with a digit
A_DIGIT ==
  <<
   "P","l","a","n"," ","7"," ","a","p","p","l","i","e","s","." >>

\* a short remote answer with a percent sign and no digit
A_PERCENT ==
  <<
   "H","a","l","f"," ","a"," ","%"," ","o","f"," ","t","h","e"," ","s","u","m","." >>

\* a short remote answer with 'months' and no digit
A_MONTHS ==
  <<
   "A","f","t","e","r"," ","s","i","x"," ","m","o","n","t","h","s","." >>

\* a short remote answer with 'years' and no digit
A_YEARS ==
  <<
   "A","f","t","e","r"," ","t","w","o"," ","y","e","a","r","s","." >>

\* a short remote answer with 'Months' capitalised
A_CAPITAL_MONTHS ==
  <<
   "S","i","x"," ","M","o","n","t","h","s"," ","L","a","t","e","r","." >>

\* a remote answer of exactly 100 characters, none of them a digit or percent sign
A_100 ==
  <<
   "T","h","e"," ","i","n","s","u","r","e","r"," ","p","a","y","s"," ","f","o","r"," ","d","e",
   "n","t","a","l"," ","c","a","r","e"," ","w","h","e","n"," ","i","t"," ","f","o","l","l","o",
   "w","s"," ","a","n"," ","a","c","c","i","d","e","n","t","."," ","P","l","e","a","s","e"," ",
   "r","e","f","e","r"," ","t","o"," ","t","h","e"," ","p","o","l","i","c","y"," ","s","c","h",
   "e","d","u","l","e"," ","f","o" >>

\* a remote answer of 101 characters, none of them a digit or percent sign
A_101 ==
  <<
   "T","h","e"," ","i","n","s","u","r","e","r"," ","p","a","y","s"," ","f","o","r"," ","d","e",
   "n","t","a","l"," ","c","a","r","e"," ","w","h","e","n"," ","i","t"," ","f","o","l","l","o",
   "w","s"," ","a","n"," ","a","c","c","i","d","e","n","t","."," ","P","l","e","a","s","e"," ",
   "r","e","f","e","r"," ","t","o"," ","t","h","e"," ","p","o","l","i","c","y"," ","s","c","h",
   "e","d","u","l","e"," ","f","o","r" >>

\* a remote answer of exactly 100 characters that holds a digit
A_100_DIGIT ==
  <<
   "P","l","a","n"," ","A"," ","c","o","v","e","r","s"," ","2"," ","d","e","n","t","a","l"," ",
   "v","i","s","i","t","s","."," ","P","l","e","a","s","e"," ","r","e","f","e","r"," ","t","o",
   " ","t","h","e"," ","p","o","l","i","c","y"," ","s","c","h","e","d","u","l","e"," ","f","o",
   "r"," ","t","h","e"," ","f","u","l","l"," ","w","o","r","d","i","n","g"," ","o","f"," ","t",
   "h","i","s"," ","c","l","a","u" >>

\* a URL.createObjectURL locator of an uploaded file
UPLOADED_URL ==
  <<
   "b","l","o","b",":","h","t","t","p",":","/","/","l","o","c","a","l","h","o","s","t",":","8",
   "0","8","0","/","3","f","2","a" >>

\* the message of a failed fetch in an engine that does not say 'Failed to fetch'
MSG_LOAD_FAILED ==
  <<
   "L","o","a","d"," ","f","a","i","l","e","d" >>

\* the message of the DOMException of controller.abort()
MSG_ABORTED ==
  <<
   "s","i","g","n","a","l"," ","i","s"," ","a","b","o","r","t","e","d"," ","w","i","t","h","o",
   "u","t"," ","r","e","a","s","o","n" >>

\* the message of the SyntaxError of response.json()
MSG_SYNTAX ==
  <<
   "U","n","e","x","p","e","c","t","e","d"," ","t","o","k","e","n"," ","<"," ","i","n"," ","J",
   "S","O","N"," ","a","t"," ","p","o","s","i","t","i","o","n"," ","0" >>

\* the message of the TypeError of indexing undefined or null
MSG_UNDEFINED_INDEX ==
  <<
   "C","a","n","n","o","t"," ","r","e","a","d"," ","p","r","o","p","e","r","t","i","e","s"," ",
   "o","f"," ","u","n","d","e","f","i","n","e","d"," ","(","r","e","a","d","i","n","g"," ","'",
   "0","'",")" >>

\* the message of the TypeError of calling includes on a non-string
MSG_NOT_A_FUNCTION ==
  <<
   "a","n","s","w","e","r",".","i","n","c","l","u","d","e","s"," ","i","s"," ","n","o","t"," ",
   "a"," ","f","u","n","c","t","i","o","n" >>

\* statusText of 200
TEXT_OK ==
  <<
   "O","K" >>

\* statusText of 404
TEXT_NOT_FOUND ==
  <<
   "N","o","t"," ","F","o","u","n","d" >>

\* statusText of 500
TEXT_SERVER_ERROR ==
  <<
   "I","n","t","e","r","n","a","l"," ","S","e","r","v","e","r"," ","E","r","r","o","r" >>

(***************************************************************************)
(* JavaScript values and string primitives.                                *)
(***************************************************************************)
Undefined == [t |-> "undefined", s |-> << >>]

Null == [t |-> "null", s |-> << >>]

Str(cs) == [t |-> "string", s |-> cs]

\* a JSON number, s its decimal rendering String(n)
Num(cs) == [t |-> "number", s |-> cs]

True == [t |-> "boolean", s |-> <<"t","r","u","e">>]

False == [t |-> "boolean", s |-> <<"f","a","l","s","e">>]

\* ToBoolean(v), as used by !v and by v || w
Truthy(v) ==
  CASE v.t = "string" -> v.s /= << >>
    [] v.t = "number" -> v.s /= <<"0">>
    [] v.t = "boolean" -> v = True
    [] OTHER -> FALSE

\* v || w
OrElse(v, w) == IF Truthy(v) THEN v ELSE w

UPPERCASE ==
  <<"A","B","C","D","E","F","G","H","I","J","K","L","M",
    "N","O","P","Q","R","S","T","U","V","W","X","Y","Z">>

LOWERCASE ==
  <<"a","b","c","d","e","f","g","h","i","j","k","l","m",
    "n","o","p","q","r","s","t","u","v","w","x","y","z">>

DIGITS == {"0","1","2","3","4","5","6","7","8","9"}

\* String.prototype.toLowerCase on the characters the model uses (ASCII)
toLowerCase(cs) ==
  [k \in 1..Len(cs) |->
     IF \E u \in 1..Len(UPPERCASE) : UPPERCASE[u] = cs[k]
       THEN LOWERCASE[CHOOSE u \in 1..Len(UPPERCASE) : UPPERCASE[u] = cs[k]]
       ELSE cs[k]]

\* String.prototype.includes: needle occurs in hay as a contiguous run
includes(hay, needle) ==
  \E p \in 0..(Len(hay) - Len(needle)) :
     SubSeq(hay, p + 1, p + Len(needle)) = needle

\* /\d+/.test(x): the string rendering of x holds a decimal digit
TestDigits(cs) == \E k \in 1..Len(cs) : cs[k] \in DIGITS

(***************************************************************************)
(* The pure functions of DocumentService.                                  *)
(***************************************************************************)
Min(a, b) == IF a < b THEN a ELSE b

\* calculateConfidence raises a TypeError: includes is called (the digit
\* test failed and did not short-circuit) on a value that is no string
calculateConfidenceThrows(answer) ==
  /\ Truthy(answer)
  /\ answer /= Str(NO_ANSWER)
  /\ ~TestDigits(answer.s)
  /\ answer.t /= "string"

\* a scoring that counts an answer of exactly 100 characters as detailed
calculateConfidence_AtLeast100(answer) ==
  IF ~Truthy(answer) \/ answer = Str(NO_ANSWER)
    THEN 10
    ELSE LET hasSpecificDetails ==
               \/ TestDigits(answer.s)
               \/ includes(answer.s, PERCENT)
               \/ includes(answer.s, MONTHS)
               \/ includes(answer.s, YEARS)
             isDetailed == answer.t = "string" /\ Len(answer.s) >= 100
             confidence == 60 + (IF hasSpecificDetails THEN 20 ELSE 0)
                              + (IF isDetailed THEN 20 ELSE 0)
         IN  Min(confidence, 100)

\* a scoring that adds 0.2 for each signal of specificity it finds and
\* leaves the sum unclamped
calculateConfidence_PerSignal(answer) ==
  IF ~Truthy(answer) \/ answer = Str(NO_ANSWER)
    THEN 10
    ELSE 60 + (IF TestDigits(answer.s) THEN 20 ELSE 0)
            + (IF includes(answer.s, PERCENT) THEN 20 ELSE 0)
            + (IF includes(answer.s, MONTHS) THEN 20 ELSE 0)
            + (IF includes(answer.s, YEARS) THEN 20 ELSE 0)
            + (IF answer.t = "string" /\ Len(answer.s) > 100 THEN 20 ELSE 0)

\* a scoring without the guard of line 83
calculateConfidence_NoGuard(answer) ==
  60 + (IF \/ TestDigits(answer.s)
           \/ includes(answer.s, PERCENT)
           \/ includes(answer.s, MONTHS)
           \/ includes(answer.s, YEARS) THEN 20 ELSE 0)
     + (IF answer.t = "string" /\ Len(answer.s) > 100 THEN 20 ELSE 0)

\* calculateConfidence, in hundredths
calculateConfidence(answer) ==
  IF ~Truthy(answer) \/ answer = Str(NO_ANSWER)
    THEN 10
    ELSE LET hasSpecificDetails ==
               \/ TestDigits(answer.s)
               \/ includes(answer.s, PERCENT)
               \/ includes(answer.s, MONTHS)
               \/ includes(answer.s, YEARS)
             \* the length of a number is undefined, and undefined > 100 is false
             isDetailed == answer.t = "string" /\ Len(answer.s) > 100
             confidence == 60 + (IF hasSpecificDetails THEN 20 ELSE 0)
                              + (IF isDetailed THEN 20 ELSE 0)
         IN  Min(confidence, 100)

generateReasoning(question, answer) ==
  IF ~Truthy(answer) \/ answer = Str(NO_ANSWER)
    THEN NO_INFORMATION
    ELSE REASONING_HEAD \o toLowerCase(question) \o REASONING_TAIL

\* a matching that tests the question as typed, without line 125
MockResponse_CaseSensitive(question) ==
  LET lowerQ == question IN
  IF includes(lowerQ, KW_GRACE_PERIOD) \/ includes(lowerQ, KW_PREMIUM_PAYMENT)
    THEN [answer |-> ANSWER_GRACE, confidence |-> 92]
  ELSE IF includes(lowerQ, KW_MATERNITY) \/ includes(lowerQ, KW_PREGNANCY)
    THEN [answer |-> ANSWER_MATERNITY, confidence |-> 90]
  ELSE IF includes(lowerQ, KW_WAITING_PERIOD) \/ includes(lowerQ, KW_PRE_EXISTING)
    THEN [answer |-> ANSWER_WAITING, confidence |-> 95]
  ELSE IF \/ includes(lowerQ, KW_ROOM_RENT)
          \/ includes(lowerQ, KW_ICU)
          \/ includes(lowerQ, KW_SUB_LIMIT)
    THEN [answer |-> ANSWER_ROOM, confidence |-> 88]
  ELSE IF includes(lowerQ, KW_NO_CLAIM_DISCOUNT) \/ includes(lowerQ, KW_NCD)
    THEN [answer |-> ANSWER_NCD, confidence |-> 93]
  ELSE IF includes(lowerQ, KW_CATARACT) \/ includes(lowerQ, KW_SURGERY)
    THEN [answer |-> ANSWER_CATARACT, confidence |-> 87]
  ELSE IF includes(lowerQ, KW_AYUSH) \/ includes(lowerQ, KW_ALTERNATIVE_MEDICINE)
    THEN [answer |-> ANSWER_AYUSH, confidence |-> 85]
  ELSE [answer |-> ANSWER_DEFAULT, confidence |-> 70]

\* the callback of questions.map at lines 124-181: the first keyword group,
\* in the order of the if statements, that the lower-cased question includes
MockResponse(question) ==
  LET lowerQ == toLowerCase(question) IN
  IF includes(lowerQ, KW_GRACE_PERIOD) \/ includes(lowerQ, KW_PREMIUM_PAYMENT)
    THEN [answer |-> ANSWER_GRACE, confidence |-> 92]
  ELSE IF includes(lowerQ, KW_MATERNITY) \/ includes(lowerQ, KW_PREGNANCY)
    THEN [answer |-> ANSWER_MATERNITY, confidence |-> 90]
  ELSE IF includes(lowerQ, KW_WAITING_PERIOD) \/ includes(lowerQ, KW_PRE_EXISTING)
    THEN [answer |-> ANSWER_WAITING, confidence |-> 95]
  ELSE IF \/ includes(lowerQ, KW_ROOM_RENT)
          \/ includes(lowerQ, KW_ICU)
          \/ includes(lowerQ, KW_SUB_LIMIT)
    THEN [answer |-> ANSWER_ROOM, confidence |-> 88]
  ELSE IF includes(lowerQ, KW_NO_CLAIM_DISCOUNT) \/ includes(lowerQ, KW_NCD)
    THEN [answer |-> ANSWER_NCD, confidence |-> 93]
  ELSE IF includes(lowerQ, KW_CATARACT) \/ includes(lowerQ, KW_SURGERY)
    THEN [answer |-> ANSWER_CATARACT, confidence |-> 87]
  ELSE IF includes(lowerQ, KW_AYUSH) \/ includes(lowerQ, KW_ALTERNATIVE_MEDICINE)
    THEN [answer |-> ANSWER_AYUSH, confidence |-> 85]
  ELSE [answer |-> ANSWER_DEFAULT, confidence |-> 70]

\* the labels of the superseded getMockResponses (line 116)
DEMO_SOURCES_Old == <<"Policy Document", "Terms & Conditions">>

DEMO_SOURCES == <<"Demo Policy Document", "Terms & Conditions">>

\* a fallback that scores its canned answers with calculateConfidence
getEnhancedMockResponses_Scored(qs, now) ==
  LET responses == [k \in 1..Len(qs) |-> MockResponse(qs[k])] IN
  [k \in 1..Len(qs) |->
     [question |-> qs[k],
      answer |-> Str(responses[k].answer),
      confidence |-> calculateConfidence(Str(responses[k].answer)),
      sources |-> DEMO_SOURCES,
      reasoning |-> generateReasoning(qs[k], Str(responses[k].answer)),
      timestamp |-> now]]

\* the superseded getMockResponses (lines 103-120) in its place: the
\* confidence is 0.85 plus a random part, drawn here from the clock reading
getEnhancedMockResponses_Random(qs, now) ==
  LET responses == [k \in 1..Len(qs) |-> MockResponse(qs[k])] IN
  [k \in 1..Len(qs) |->
     [question |-> qs[k],
      answer |-> Str(responses[k].answer),
      confidence |-> 85 + now,
      sources |-> DEMO_SOURCES,
      reasoning |-> generateReasoning(qs[k], Str(responses[k].answer)),
      timestamp |-> now]]

\* getEnhancedMockResponses; now is the reading of new Date()
getEnhancedMockResponses(qs, now) ==
  LET responses == [k \in 1..Len(qs) |-> MockResponse(qs[k])] IN
  [k \in 1..Len(qs) |->
     [question |-> qs[k],
      answer |-> Str(responses[k].answer),
      confidence |-> responses[k].confidence,
      sources |-> DEMO_SOURCES,
      reasoning |-> generateReasoning(qs[k], Str(responses[k].answer)),
      timestamp |-> now]]

(***************************************************************************)
(* The parsed response body.  data is the value response.json() resolves   *)
(* with: JSON null ("null") or an object ("object") whose answers field    *)
(* is missing (Undefined) or holds any JSON value.                         *)
(***************************************************************************)
Answers(type, cs, elems) == [t |-> type, s |-> cs, a |-> elems]

\* data.answers raises a TypeError: data is null
AnswersThrows(data) == data.t = "null"

\* data.answers[index] raises a TypeError: answers is undefined or null
IndexThrows(data) == data.answers.t \in {"undefined", "null"}

\* an indexing that is off by one
AnswerAt_Next(data, k) ==
  LET answers == data.answers IN
  CASE answers.t = "array" ->
         IF k + 1 <= Len(answers.a) THEN answers.a[k + 1] ELSE Undefined
    [] answers.t = "string" ->
         IF k + 1 <= Len(answers.s) THEN Str(<<answers.s[k + 1]>>) ELSE Undefined
    [] OTHER -> Undefined

\* data.answers[index], index = k - 1: an element of an array, a character
\* of a string, undefined past the end and on a number, boolean or object
AnswerAt(data, k) ==
  LET answers == data.answers IN
  CASE answers.t = "array" ->
         IF k <= Len(answers.a) THEN answers.a[k] ELSE Undefined
    [] answers.t = "string" ->
         IF k <= Len(answers.s) THEN Str(<<answers.s[k]>>) ELSE Undefined
    [] OTHER -> Undefined

\* a label that takes every reference that is not undefined as supplied
RemoteSources_Defined(documentUrl) ==
  IF documentUrl /= Undefined
    THEN <<"Uploaded Document">>
    ELSE <<"Sample Policy Document">>

\* sources of a remote result, line 61
RemoteSources(documentUrl) ==
  IF Truthy(documentUrl) THEN <<"Uploaded Document">> ELSE <<"Sample Policy Document">>

\* the callback of questions.map at lines 57-64 for position k
RemoteResult(qs, k, data, documentUrl, now) ==
  [question |-> qs[k],
   answer |-> OrElse(AnswerAt(data, k), Str(NO_ANSWER)),
   confidence |-> calculateConfidence(OrElse(AnswerAt(data, k), Str(<< >>))),
   sources |-> RemoteSources(documentUrl),
   reasoning |-> generateReasoning(qs[k], OrElse(AnswerAt(data, k), Str(<< >>))),
   timestamp |-> now]

\* lines 57-64 raise: data.answers, its indexing, or calculateConfidence of a
\* position does (the batch is mapped position by position, so an empty batch
\* raises nothing)
MapThrows(qs, data) ==
  /\ Len(qs) > 0
  /\ \/ AnswersThrows(data)
     \/ IndexThrows(data)
     \/ \E k \in 1..Len(qs) :
          calculateConfidenceThrows(OrElse(AnswerAt(data, k), Str(<< >>)))

\* the error lines 57-64 raise first
MapError(qs, data) ==
  IF AnswersThrows(data) \/ IndexThrows(data)
    THEN [name |-> "TypeError", message |-> Str(MSG_UNDEFINED_INDEX)]
    ELSE [name |-> "TypeError", message |-> Str(MSG_NOT_A_FUNCTION)]

\* a mapping of the answers that arrived instead of the questions asked:
\* positions the remote did not answer get no result
MapResults_Answered(qs, data, documentUrl, now) ==
  [k \in 1..Min(Len(qs), Len(data.answers.a)) |->
     RemoteResult(qs, k, data, documentUrl, now)]

MapResults(qs, data, documentUrl, now) ==
  [k \in 1..Len(qs) |-> RemoteResult(qs, k, data, documentUrl, now)]

(***************************************************************************)
(* Bounds and the inputs drawn from them.                                  *)
(***************************************************************************)
\* the longest question batch
MaxBatch == 2

\* the longest remote answer sequence: one longer than the longest batch
MaxAnswers == MaxBatch + 1

SeqsUpTo(S, n) == UNION {[1..m -> S] : m \in 0..n}

Questions == {Q_GRACE_MATERNITY, Q_DENTAL}

Batches == SeqsUpTo(Questions, MaxBatch) \ {<< >>}

\* the optional second argument: absent, the empty string, a locator
DocumentUrls == {Undefined, Str(<< >>), Str(UPLOADED_URL)}

\* the elements a remote answers array may hold
AnswerElems == {Str(<< >>), Str(A_X), Str(A_LONG), Num(<<"4","2">>), True}

Obj(answers) == [t |-> "object", answers |-> answers]

JsonNull == [t |-> "null", answers |-> Answers("undefined", << >>, << >>)]

\* the JSON bodies: null, {}, {answers: null}, {answers: "X"}, {answers: 7},
\* {answers: {}} and {answers: [...]}
Bodies ==
  {JsonNull,
   Obj(Answers("undefined", << >>, << >>)),
   Obj(Answers("null", << >>, << >>)),
   Obj(Answers("string", A_X, << >>)),
   Obj(Answers("number", <<"7">>, << >>)),
   Obj(Answers("object", << >>, << >>))}
  \cup {Obj(Answers("array", << >>, a)) : a \in SeqsUpTo(AnswerElems, MaxAnswers)}

\* the readings of new Date()
Times == {1, 2}

\* the concurrent invocations the model distinguishes
Inv == {"a", "b"}

(***************************************************************************)
(* Responses and errors.                                                   *)
(***************************************************************************)
NoResponse == [status |-> 0, statusText |-> << >>, bodyUsed |-> FALSE]

Responses ==
  {[status |-> 200, statusText |-> TEXT_OK, bodyUsed |-> FALSE],
   [status |-> 404, statusText |-> TEXT_NOT_FOUND, bodyUsed |-> FALSE],
   [status |-> 500, statusText |-> TEXT_SERVER_ERROR, bodyUsed |-> FALSE]}

\* no check of the status: fetch resolves for every status
Ok_Always(response) == TRUE

\* Response.ok
Ok(response) == response.status \in 200..299

DIGIT_CHARS == <<"0","1","2","3","4","5","6","7","8","9">>

\* `${response.status}` of a three-digit status
Decimal(n) ==
  <<DIGIT_CHARS[(n \div 100) + 1],
    DIGIT_CHARS[((n \div 10) % 10) + 1],
    DIGIT_CHARS[(n % 10) + 1]>>

NoBody == [t |-> "none", answers |-> Answers("undefined", << >>, << >>)]

NoError == [name |-> "none", message |-> Undefined]

\* what fetch rejects with when the network fails: a TypeError whose message
\* depends on the engine
NetworkErrors ==
  {[name |-> "TypeError", message |-> Str(FAILED_TO_FETCH)],
   [name |-> "TypeError", message |-> Str(MSG_LOAD_FAILED)]}

\* what fetch rejects with when controller.abort() is called
AbortError == [name |-> "AbortError", message |-> Str(MSG_ABORTED)]

\* an error thrown as a bare object that has no message
HttpError_NoMessage(response) == [name |-> "Error", message |-> Undefined]

\* new Error(`API request failed: ${response.status} ${response.statusText}`)
HttpError(response) ==
  [name |-> "Error",
   message |-> Str(API_REQUEST_FAILED \o Decimal(response.status)
                     \o <<" ">> \o response.statusText)]

\* what response.json() rejects with: the body is no JSON text, or the
\* connection fails while the body is read
BodyErrors ==
  {[name |-> "SyntaxError", message |-> Str(MSG_SYNTAX)]} \cup NetworkErrors

\* the catch block raises: error.message.includes is called (the error is
\* no AbortError) on a message that is no string
CatchThrows(e) == e.name /= "AbortError" /\ e.message.t /= "string"

\* the console.warn of the catch block, lines 70-74
Warning(e) ==
  IF e.name = "AbortError" THEN "Request timed out, using demo responses"
  ELSE IF includes(e.message.s, FAILED_TO_FETCH)
    THEN "API not available, using demo responses"
  ELSE "none"

(***************************************************************************)
(* State: one entry per invocation of processQueries.                      *)
(***************************************************************************)
VARIABLES
  callers,      \* the invocations the host application makes
  pc,           \* "idle", "awaitFetch" (line 37), "awaitJson" (line 54),
                \* "done" (resolved), "rejected"
  questions,    \* the first argument
  documentUrl,  \* the second argument
  sent,         \* the request bodies handed to fetch, in order
  timeoutId,    \* the timer of line 35: "none", "armed", "cleared", "fired"
  aborted,      \* controller.signal.aborted
  request,      \* the fetch: "none", "pending", "responded", "failed", "aborted"
  response,     \* the Response fetch resolved with
  data,         \* the value response.json() resolved with
  error,        \* the error the catch block caught
  warned,       \* the console.warn of the catch block
  results,      \* the array the promise resolved with
  path,         \* the return that produced it: "none", "remote", "fallback"
  late,         \* the remote answered a request that was already aborted
  documents,        \* DocumentUpload.tsx:23, the uploaded documents
  indexDocuments,   \* DocumentService.ts:214, the documents of the page
  queries,          \* QueryInterface.tsx:24, the question fields
  isProcessing,     \* QueryInterface.tsx:25
  shownResults,     \* QueryInterface.tsx:26, the results on display
  awaiting,         \* the invocation handleSubmit awaits, or "none"
  lastQueryTime     \* DocumentService.ts:215, "undefined" or "measured"

\* the state of the page and of its two components
uiVars ==
  <<documents, indexDocuments, queries, isProcessing, shownResults, awaiting,
    lastQueryTime>>

vars ==
  <<callers, pc, questions, documentUrl, sent, timeoutId, aborted, request,
    response, data, error, warned, results, path, late, documents,
    indexDocuments, queries, isProcessing, shownResults, awaiting,
    lastQueryTime>>

InitCalls ==
  /\ pc = [i \in Inv |-> "idle"]
  /\ questions = [i \in Inv |-> << >>]
  /\ documentUrl = [i \in Inv |-> Undefined]
  /\ sent = [i \in Inv |-> << >>]
  /\ timeoutId = [i \in Inv |-> "none"]
  /\ aborted = [i \in Inv |-> FALSE]
  /\ request = [i \in Inv |-> "none"]
  /\ response = [i \in Inv |-> NoResponse]
  /\ data = [i \in Inv |-> NoBody]
  /\ error = [i \in Inv |-> NoError]
  /\ warned = [i \in Inv |-> "none"]
  /\ results = [i \in Inv |-> << >>]
  /\ path = [i \in Inv |-> "none"]
  /\ late = [i \in Inv |-> FALSE]

\* the page as it is mounted: no document, one empty question field
InitPage ==
  /\ documents = << >>
  /\ indexDocuments = << >>
  /\ queries = << << >> >>
  /\ isProcessing = FALSE
  /\ shownResults = << >>
  /\ awaiting = "none"
  /\ lastQueryTime = "undefined"

\* one caller
Init == callers = {"a"} /\ InitCalls /\ InitPage

\* one request per question instead of one for the batch
Invoke_PerQuestion(i, qs, d) ==
  /\ i \in callers
  /\ pc[i] = "idle"
  /\ questions' = [questions EXCEPT ![i] = qs]
  /\ documentUrl' = [documentUrl EXCEPT ![i] = d]
  /\ sent' = [sent EXCEPT ![i] =
                [k \in 1..Len(qs) |->
                   [documents |-> OrElse(d, Str(SAMPLE_DOCUMENT)),
                    questions |-> <<qs[k]>>]]]
  /\ timeoutId' = [timeoutId EXCEPT ![i] = "armed"]
  /\ request' = [request EXCEPT ![i] = "pending"]
  /\ pc' = [pc EXCEPT ![i] = "awaitFetch"]
  /\ UNCHANGED <<callers, aborted, response, data, error, warned, results,
                 path, late>>

\* lines 26-46: the request is built and handed to fetch with the signal of
\* a fresh controller, after the timer is armed
Invoke(i, qs, d) ==
  /\ i \in callers
  /\ pc[i] = "idle"
  /\ questions' = [questions EXCEPT ![i] = qs]
  /\ documentUrl' = [documentUrl EXCEPT ![i] = d]
  /\ sent' = [sent EXCEPT ![i] =
                Append(@, [documents |-> OrElse(d, Str(SAMPLE_DOCUMENT)),
                           questions |-> qs])]
  /\ timeoutId' = [timeoutId EXCEPT ![i] = "armed"]
  /\ request' = [request EXCEPT ![i] = "pending"]
  /\ pc' = [pc EXCEPT ![i] = "awaitFetch"]
  /\ UNCHANGED <<callers, aborted, response, data, error, warned, results,
                 path, late>>

\* lines 66-78: the catch block, entered with e
Catch(i, e, now) ==
  /\ error' = [error EXCEPT ![i] = e]
  /\ IF CatchThrows(e)
       THEN /\ pc' = [pc EXCEPT ![i] = "rejected"]
            /\ UNCHANGED <<warned, results, path>>
       ELSE /\ warned' = [warned EXCEPT ![i] = Warning(e)]
            /\ results' = [results EXCEPT ![i] =
                             getEnhancedMockResponses(questions[i], now)]
            /\ path' = [path EXCEPT ![i] = "fallback"]
            /\ pc' = [pc EXCEPT ![i] = "done"]

\* fetch rejects (line 37): the network failed; line 48 is skipped, so the
\* timer stays armed
FetchFails(i, e, now) ==
  /\ pc[i] = "awaitFetch"
  /\ request[i] = "pending"
  /\ request' = [request EXCEPT ![i] = "failed"]
  /\ Catch(i, e, now)
  /\ UNCHANGED <<uiVars, callers, questions, documentUrl, sent, timeoutId, aborted,
                 response, data, late>>

\* the timer fires on a controller whose signal fetch was not given: the
\* fetch stays pending
TimeoutAborts_NoSignal(i, now) ==
  /\ timeoutId[i] = "armed"
  /\ pc[i] = "awaitFetch"
  /\ timeoutId' = [timeoutId EXCEPT ![i] = "fired"]
  /\ aborted' = [aborted EXCEPT ![i] = TRUE]
  /\ UNCHANGED <<uiVars, callers, pc, questions, documentUrl, sent, request, response,
                 data, error, warned, results, path, late>>

\* a controller shared by all invocations (a static field): the timer of
\* one invocation aborts every pending fetch
TimeoutAborts_SharedController(i, now) ==
  LET hit == {j \in Inv : pc[j] = "awaitFetch"} IN
  /\ timeoutId[i] = "armed"
  /\ pc[i] = "awaitFetch"
  /\ timeoutId' = [timeoutId EXCEPT ![i] = "fired"]
  /\ aborted' = [j \in Inv |-> IF j \in hit THEN TRUE ELSE aborted[j]]
  /\ request' = [j \in Inv |-> IF j \in hit THEN "aborted" ELSE request[j]]
  /\ error' = [j \in Inv |-> IF j \in hit THEN AbortError ELSE error[j]]
  /\ warned' = [j \in Inv |-> IF j \in hit THEN Warning(AbortError) ELSE warned[j]]
  /\ results' = [j \in Inv |->
                  IF j \in hit THEN getEnhancedMockResponses(questions[j], now)
                                ELSE results[j]]
  /\ path' = [j \in Inv |-> IF j \in hit THEN "fallback" ELSE path[j]]
  /\ pc' = [j \in Inv |-> IF j \in hit THEN "done" ELSE pc[j]]
  /\ UNCHANGED <<uiVars, callers, questions, documentUrl, sent, response, data, late>>

\* the timer of line 35 fires while fetch is pending: controller.abort()
\* rejects the fetch with an AbortError
TimeoutAborts(i, now) ==
  /\ timeoutId[i] = "armed"
  /\ pc[i] = "awaitFetch"
  /\ timeoutId' = [timeoutId EXCEPT ![i] = "fired"]
  /\ aborted' = [aborted EXCEPT ![i] = TRUE]
  /\ request' = [request EXCEPT ![i] = "aborted"]
  /\ Catch(i, AbortError, now)
  /\ UNCHANGED <<uiVars, callers, questions, documentUrl, sent, response, data, late>>

\* the timer fires after the invocation returned through the catch block of
\* a failed fetch: controller.abort() finds no pending fetch
TimeoutAfterReturn(i) ==
  /\ timeoutId[i] = "armed"
  /\ pc[i] /= "awaitFetch"
  /\ timeoutId' = [timeoutId EXCEPT ![i] = "fired"]
  /\ aborted' = [aborted EXCEPT ![i] = TRUE]
  /\ UNCHANGED <<uiVars, callers, pc, questions, documentUrl, sent, request, response,
                 data, error, warned, results, path, late>>

\* fetch resolves with a response that is not ok: lines 48-52
ResponseNotOk(i, r, now) ==
  /\ pc[i] = "awaitFetch"
  /\ request[i] = "pending"
  /\ ~Ok(r)
  /\ request' = [request EXCEPT ![i] = "responded"]
  /\ response' = [response EXCEPT ![i] = r]
  /\ timeoutId' = [timeoutId EXCEPT ![i] = "cleared"]
  /\ Catch(i, HttpError(r), now)
  /\ UNCHANGED <<uiVars, callers, questions, documentUrl, sent, aborted, data, late>>

\* fetch resolves with an ok response: lines 48-54, up to the await of
\* response.json()
ResponseOk(i, r) ==
  /\ pc[i] = "awaitFetch"
  /\ request[i] = "pending"
  /\ Ok(r)
  /\ request' = [request EXCEPT ![i] = "responded"]
  /\ response' = [response EXCEPT ![i] = [r EXCEPT !.bodyUsed = TRUE]]
  /\ timeoutId' = [timeoutId EXCEPT ![i] = "cleared"]
  /\ pc' = [pc EXCEPT ![i] = "awaitJson"]
  /\ UNCHANGED <<uiVars, callers, questions, documentUrl, sent, aborted, data, error,
                 warned, results, path, late>>

\* response.json() rejects (line 54)
BodyRejects(i, e, now) ==
  /\ pc[i] = "awaitJson"
  /\ Catch(i, e, now)
  /\ UNCHANGED <<uiVars, callers, questions, documentUrl, sent, timeoutId, aborted,
                 request, response, data, late>>

\* response.json() resolves with d and lines 57-64 raise
BodyMapThrows(i, d, now) ==
  /\ pc[i] = "awaitJson"
  /\ MapThrows(questions[i], d)
  /\ data' = [data EXCEPT ![i] = d]
  /\ Catch(i, MapError(questions[i], d), now)
  /\ UNCHANGED <<uiVars, callers, questions, documentUrl, sent, timeoutId, aborted,
                 request, response, late>>

\* response.json() resolves with d and lines 57-64 return the mapped batch
BodyMapped(i, d, now) ==
  /\ pc[i] = "awaitJson"
  /\ ~MapThrows(questions[i], d)
  /\ data' = [data EXCEPT ![i] = d]
  /\ results' = [results EXCEPT ![i] =
                   MapResults(questions[i], d, documentUrl[i], now)]
  /\ path' = [path EXCEPT ![i] = "remote"]
  /\ pc' = [pc EXCEPT ![i] = "done"]
  /\ UNCHANGED <<uiVars, callers, questions, documentUrl, sent, timeoutId, aborted,
                 request, response, error, warned, late>>

\* the remote answers a request that controller.abort() already ended: the
\* platform drops the response
LateResponse(i) ==
  /\ request[i] = "aborted"
  /\ ~late[i]
  /\ late' = [late EXCEPT ![i] = TRUE]
  /\ UNCHANGED <<uiVars, callers, pc, questions, documentUrl, sent, timeoutId, aborted,
                 request, response, data, error, warned, results, path>>

\* a host application other than the page invokes the service
Call(i, qs, d) == Invoke(i, qs, d) /\ UNCHANGED uiVars

Next ==
  \/ \E i \in Inv, qs \in Batches, d \in DocumentUrls : Call(i, qs, d)
  \/ \E i \in Inv, e \in NetworkErrors, now \in Times : FetchFails(i, e, now)
  \/ \E i \in Inv, now \in Times : TimeoutAborts(i, now)
  \/ \E i \in Inv : TimeoutAfterReturn(i)
  \/ \E i \in Inv, r \in Responses, now \in Times : ResponseNotOk(i, r, now)
  \/ \E i \in Inv, r \in Responses : ResponseOk(i, r)
  \/ \E i \in Inv, e \in BodyErrors, now \in Times : BodyRejects(i, e, now)
  \/ \E i \in Inv, d \in Bodies, now \in Times : BodyMapThrows(i, d, now)
  \/ \E i \in Inv, d \in Bodies, now \in Times : BodyMapped(i, d, now)
  \/ \E i \in Inv : LateResponse(i)

Spec == Init /\ [][Next]_vars

\* the timer of setTimeout fires when it is armed; what the remote does is
\* left to the remote
Fairness ==
  \A i \in Inv :
    /\ WF_vars(\E now \in Times : TimeoutAborts(i, now))
    /\ WF_vars(TimeoutAfterReturn(i))

SpecLive == Init /\ [][Next]_vars /\ Fairness
(***************************************************************************)
(* The failing remote: every invocation ends in the catch block.  The      *)
(* batches are the single keyword questions and the batches of Spec.       *)
(***************************************************************************)
FallbackBatches == {<<q>> : q \in KeywordQuestions} \cup Batches

\* bodies whose mapping raises: null, {} and {answers: [true]}
RaisingBodies ==
  {JsonNull,
   Obj(Answers("undefined", << >>, << >>)),
   Obj(Answers("array", << >>, <<True>>))}

NextFallback ==
  \/ \E i \in Inv, qs \in FallbackBatches, d \in DocumentUrls : Call(i, qs, d)
  \/ \E i \in Inv, e \in NetworkErrors, now \in Times : FetchFails(i, e, now)
  \/ \E i \in Inv, now \in Times : TimeoutAborts(i, now)
  \/ \E i \in Inv : TimeoutAfterReturn(i)
  \/ \E i \in Inv, r \in Responses, now \in Times : ResponseNotOk(i, r, now)
  \/ \E i \in Inv, r \in Responses : ResponseOk(i, r)
  \/ \E i \in Inv, e \in BodyErrors, now \in Times : BodyRejects(i, e, now)
  \/ \E i \in Inv, d \in RaisingBodies, now \in Times : BodyMapThrows(i, d, now)
  \/ \E i \in Inv : LateResponse(i)

SpecFallback == Init /\ [][NextFallback]_vars

(***************************************************************************)
(* The answering remote: every invocation gets an ok response whose body   *)
(* is an answers array of strings and numbers.                             *)
(***************************************************************************)
ScoredAnswers ==
  {Str(<< >>), Str(NO_ANSWER), Str(A_X), Str(A_DIGIT), Str(A_PERCENT),
   Str(A_MONTHS), Str(A_YEARS), Str(A_CAPITAL_MONTHS), Str(A_100), Str(A_101),
   Str(A_100_DIGIT), Str(A_LONG), Num(<<"4","2">>)}

\* {answers: [a]} and {answers: [a, "X"]}
ScoredBodies ==
  {Obj(Answers("array", << >>, <<a>>)) : a \in ScoredAnswers}
  \cup {Obj(Answers("array", << >>, <<a, Str(A_X)>>)) : a \in ScoredAnswers}

NextScored ==
  \/ \E i \in Inv, qs \in Batches, d \in DocumentUrls : Call(i, qs, d)
  \/ \E i \in Inv, r \in Responses : ResponseOk(i, r)
  \/ \E i \in Inv, d \in ScoredBodies, now \in Times : BodyMapped(i, d, now)

SpecScored == Init /\ [][NextScored]_vars

(***************************************************************************)
(* Two callers: the host application makes two invocations, which          *)
(* interleave at their awaits.                                             *)
(***************************************************************************)
ConcBatches == {<<Q_GRACE_MATERNITY>>, <<Q_DENTAL, Q_GRACE_MATERNITY>>}

ConcDocumentUrls == {Undefined, Str(UPLOADED_URL)}

\* null, {answers: ["X"]} and {answers: [A_LONG, ""]}
ConcBodies ==
  {JsonNull,
   Obj(Answers("array", << >>, <<Str(A_X)>>)),
   Obj(Answers("array", << >>, <<Str(A_LONG), Str(<< >>)>>))}

InitConc == callers = Inv /\ InitCalls /\ InitPage

NextConc ==
  \/ \E i \in Inv, qs \in ConcBatches, d \in ConcDocumentUrls : Call(i, qs, d)
  \/ \E i \in Inv, e \in NetworkErrors, now \in Times : FetchFails(i, e, now)
  \/ \E i \in Inv, now \in Times : TimeoutAborts(i, now)
  \/ \E i \in Inv : TimeoutAfterReturn(i)
  \/ \E i \in Inv, r \in Responses, now \in Times : ResponseNotOk(i, r, now)
  \/ \E i \in Inv, r \in Responses : ResponseOk(i, r)
  \/ \E i \in Inv, e \in BodyErrors, now \in Times : BodyRejects(i, e, now)
  \/ \E i \in Inv, d \in ConcBodies, now \in Times : BodyMapThrows(i, d, now)
  \/ \E i \in Inv, d \in ConcBodies, now \in Times : BodyMapped(i, d, now)
  \/ \E i \in Inv : LateResponse(i)

SpecConc == InitConc /\ [][NextConc]_vars

(***************************************************************************)
(* The page: DocumentUpload hands its ready documents to Index, and        *)
(* QueryInterface submits the question fields through                      *)
(* Index.handleQuerySubmit to processQueries.                              *)
(***************************************************************************)
\* QueryInterface.tsx:84, the first of the sample queries
SAMPLE_QUERY ==
  <<
   "W","h","a","t"," ","i","s"," ","t","h","e"," ","g","r","a","c","e"," ","p","e","r","i","o",
   "d"," ","f","o","r"," ","p","r","e","m","i","u","m"," ","p","a","y","m","e","n","t","?" >>


\* sums of `Math.random() * 20` that stay below 100
PartialProgress == {50}

MaxQueries == 2

validTypes ==
  {"application/pdf",
   "application/vnd.openxmlformats-officedocument.wordprocessingml.document",
   "text/plain"}

maxFileSize == 10 * 1024 * 1024

\* the files the user drops or selects, each of them once: two that are
\* accepted, one of an unsupported type and one that is too large
Files ==
  {[name |-> "policy.pdf", type |-> "application/pdf", size |-> 1024],
   [name |-> "terms.txt", type |-> "text/plain", size |-> maxFileSize],
   [name |-> "photo.png", type |-> "image/png", size |-> 1024],
   [name |-> "scan.pdf", type |-> "application/pdf", size |-> maxFileSize + 1]}

\* URL.createObjectURL: a fresh blob URL for every call, here the k-th
createObjectURL(k) == UPLOADED_URL \o <<"-">> \o Decimal(k)

\* what the user types into a question field
TypedTexts == {<< >>, <<" ">>, SAMPLE_QUERY}

\* the badges of the page; the model clicks the first
SampleQueries == {SAMPLE_QUERY}

WHITESPACE == {" "}

\* String.prototype.trim
trim(cs) ==
  LET kept == {k \in 1..Len(cs) : cs[k] \notin WHITESPACE}
  IN  IF kept = {} THEN << >>
      ELSE SubSeq(cs, CHOOSE k \in kept : \A m \in kept : k <= m,
                      CHOOSE k \in kept : \A m \in kept : m <= k)

\* prev.map(doc => doc.id === docId ? {...doc, status, progress} : doc)
SetDocument(docs, docId, status, progress) ==
  [k \in 1..Len(docs) |->
     IF docs[k].id = docId
       THEN [docs[k] EXCEPT !.status = status, !.progress = progress]
       ELSE docs[k]]

\* every document is handed over, whatever its status
ReadyDocuments_All(docs) == docs

\* updated.filter(d => d.status === 'ready')
ReadyDocuments(docs) == SelectSeq(docs, LAMBDA doc : doc.status = "ready")

\* Index: documentsReady={readyDocuments > 0}
documentsReady == Len(SelectSeq(indexDocuments, LAMBDA doc : doc.status = "ready")) > 0

\* processFiles for one file; a file of an unsupported type or above the
\* size limit raises a toast and changes nothing
processFiles(file) ==
  /\ file.type \in validTypes
  /\ ~(file.size > maxFileSize)
  /\ \A k \in 1..Len(documents) : documents[k].name /= file.name
  /\ documents' =
       Append(documents,
              [id |-> Len(documents) + 1, name |-> file.name,
               type |-> file.type, url |-> createObjectURL(Len(documents) + 1),
               status |-> "uploading", progress |-> 0])
  /\ UNCHANGED <<indexDocuments, queries, isProcessing, shownResults, awaiting,
                 lastQueryTime>>
  /\ UNCHANGED <<callers, pc, questions, documentUrl, sent, timeoutId, aborted,
                 request, response, data, error, warned, results, path, late>>

\* the interval of simulateUpload while progress stays below 100
UploadProgress(docId, progress) ==
  /\ ~(progress >= 100)
  /\ \E k \in 1..Len(documents) :
       documents[k].id = docId /\ documents[k].status = "uploading"
  /\ documents' = SetDocument(documents, docId, "uploading", progress)
  /\ UNCHANGED <<indexDocuments, queries, isProcessing, shownResults, awaiting,
                 lastQueryTime>>
  /\ UNCHANGED <<callers, pc, questions, documentUrl, sent, timeoutId, aborted,
                 request, response, data, error, warned, results, path, late>>

\* the interval of simulateUpload when progress reaches 100
UploadComplete(docId) ==
  /\ \E k \in 1..Len(documents) :
       documents[k].id = docId /\ documents[k].status = "uploading"
  /\ documents' = SetDocument(documents, docId, "processing", 100)
  /\ UNCHANGED <<indexDocuments, queries, isProcessing, shownResults, awaiting,
                 lastQueryTime>>
  /\ UNCHANGED <<callers, pc, questions, documentUrl, sent, timeoutId, aborted,
                 request, response, data, error, warned, results, path, late>>

\* the timer of simulateUpload, two seconds later, and handleDocumentsReady
ProcessingComplete(docId) ==
  LET updated == SetDocument(documents, docId, "ready", 100)
  IN  /\ \E k \in 1..Len(documents) :
           documents[k].id = docId /\ documents[k].status = "processing"
      /\ documents' = updated
      /\ indexDocuments' = ReadyDocuments(updated)
      /\ UNCHANGED <<queries, isProcessing, shownResults, awaiting,
                     lastQueryTime>>
      /\ UNCHANGED <<callers, pc, questions, documentUrl, sent, timeoutId,
                     aborted, request, response, data, error, warned, results,
                     path, late>>

\* the Add Question button, disabled while a submission is processed
addQuery ==
  /\ ~isProcessing
  /\ Len(queries) < MaxQueries
  /\ queries' = Append(queries, << >>)
  /\ UNCHANGED <<documents, indexDocuments, isProcessing, shownResults,
                 awaiting, lastQueryTime>>
  /\ UNCHANGED <<callers, pc, questions, documentUrl, sent, timeoutId, aborted,
                 request, response, data, error, warned, results, path, late>>

\* index counts from 1 here
updateQuery(index, value) ==
  /\ index \in 1..Len(queries)
  /\ queries' = [queries EXCEPT ![index] = value]
  /\ UNCHANGED <<documents, indexDocuments, isProcessing, shownResults,
                 awaiting, lastQueryTime>>
  /\ UNCHANGED <<callers, pc, questions, documentUrl, sent, timeoutId, aborted,
                 request, response, data, error, warned, results, path, late>>

removeQuery(index) ==
  /\ index \in 1..Len(queries)
  /\ Len(queries) > 1
  /\ queries' = SubSeq(queries, 1, index - 1)
                  \o SubSeq(queries, index + 1, Len(queries))
  /\ UNCHANGED <<documents, indexDocuments, isProcessing, shownResults,
                 awaiting, lastQueryTime>>
  /\ UNCHANGED <<callers, pc, questions, documentUrl, sent, timeoutId, aborted,
                 request, response, data, error, warned, results, path, late>>

loadSampleQuery(query) ==
  LET empty == {k \in 1..Len(queries) : trim(queries[k]) = << >>}
  IN  /\ IF empty /= {}
           THEN queries' =
                  [queries EXCEPT ![CHOOSE k \in empty : \A m \in empty : k <= m]
                                     = query]
           ELSE /\ Len(queries) < MaxQueries
                /\ queries' = Append(queries, query)
      /\ UNCHANGED <<documents, indexDocuments, isProcessing, shownResults,
                     awaiting, lastQueryTime>>
      /\ UNCHANGED <<callers, pc, questions, documentUrl, sent, timeoutId,
                     aborted, request, response, data, error, warned, results,
                     path, late>>

\* the page takes the invocations in turn
FirstIdle == IF pc["a"] = "idle" THEN "a" ELSE "b"

\* Index.handleQuerySubmit up to its await
handleQuerySubmit(i, qs) ==
  Invoke(i, qs,
         IF Len(indexDocuments) > 0 THEN Str(indexDocuments[1].url)
         ELSE Undefined)

\* the Process Queries button and handleSubmit up to its await; without a
\* valid query or without a ready document it raises a toast and returns
handleSubmit(i) ==
  LET validQueries == SelectSeq(queries, LAMBDA q : trim(q) /= << >>)
  IN  /\ documentsReady /\ ~isProcessing
      /\ Len(validQueries) /= 0
      /\ documentsReady
      /\ i = FirstIdle
      /\ isProcessing' = TRUE
      /\ awaiting' = i
      /\ handleQuerySubmit(i, validQueries)
      /\ UNCHANGED <<documents, indexDocuments, queries, shownResults,
                     lastQueryTime>>

\* the rest of handleQuerySubmit and of handleSubmit, once the promise of
\* processQueries has settled
Settled(i) ==
  /\ awaiting = i
  /\ pc[i] \in {"done", "rejected"}
  /\ IF pc[i] = "done"
       THEN shownResults' = results[i] /\ lastQueryTime' = "measured"
       ELSE UNCHANGED <<shownResults, lastQueryTime>>
  /\ isProcessing' = FALSE
  /\ awaiting' = "none"
  /\ UNCHANGED <<documents, indexDocuments, queries>>
  /\ UNCHANGED <<callers, pc, questions, documentUrl, sent, timeoutId, aborted,
                 request, response, data, error, warned, results, path, late>>

\* what the remote does to the requests of the page: it cannot be reached,
\* or it answers 200 with {answers: ["X"]}
PageErrors == {[name |-> "TypeError", message |-> Str(FAILED_TO_FETCH)]}

PageResponses == {r \in Responses : Ok(r) /\ ~r.bodyUsed}

PageBodies == {Obj(Answers("array", << >>, <<Str(A_X)>>))}

NextUI ==
  \/ \E file \in Files : processFiles(file)
  \/ \E docId \in 1..Cardinality(Files), progress \in PartialProgress :
       UploadProgress(docId, progress)
  \/ \E docId \in 1..Cardinality(Files) : UploadComplete(docId)
  \/ \E docId \in 1..Cardinality(Files) : ProcessingComplete(docId)
  \/ addQuery
  \/ \E index \in 1..MaxQueries, value \in TypedTexts : updateQuery(index, value)
  \/ \E index \in 1..MaxQueries : removeQuery(index)
  \/ \E query \in SampleQueries : loadSampleQuery(query)
  \/ \E i \in Inv : handleSubmit(i)
  \/ \E i \in Inv, e \in PageErrors : FetchFails(i, e, 1)
  \/ \E i \in Inv, r \in PageResponses : ResponseOk(i, r)
  \/ \E i \in Inv, d \in PageBodies : BodyMapped(i, d, 1)
  \/ \E i \in Inv : Settled(i)

SpecUI == InitConc /\ [][NextUI]_vars

(***************************************************************************)
(* Properties of processQueries.                                           *)
(***************************************************************************)
\* a result array without its timestamps
Content(rs) ==
  [k \in 1..Len(rs) |->
     [question |-> rs[k].question,
      answer |-> rs[k].answer,
      confidence |-> rs[k].confidence,
      sources |-> rs[k].sources,
      reasoning |-> rs[k].reasoning]]

\* the output of the fallback responder for a batch, without its timestamps
FallbackContent(qs) == Content(getEnhancedMockResponses(qs, 1))

\* the try block of the invocation raised, whatever the failure was
RemoteFailed(i) == error[i] /= NoError

\* the body is not of the shape {answers: string[]}
MisShaped(d) ==
  \/ d.t /= "object"
  \/ d.answers.t /= "array"
  \/ \E k \in 1..Len(d.answers.a) : d.answers.a[k].t /= "string"

\* C1: processQueries never rejects: no invocation ends rejected, and an
\* invocation whose try block raised (network error, abort, non-2xx status,
\* unparseable or mis-shaped body) has resolved with an array, the catch
\* block itself raising nothing.
C1_NeverRejects ==
  \A i \in Inv :
    /\ pc[i] /= "rejected"
    /\ RemoteFailed(i) => pc[i] = "done" /\ DOMAIN results[i] = 1..Len(questions[i])

\* a mis-shaped body made the mapping raise and the catch block absorbed it
C1_Witness ==
  \E i \in Inv :
    /\ pc[i] = "done"
    /\ data[i] /= NoBody
    /\ error[i].name = "TypeError"

\* C2: every invocation eventually settles, provided the timer fires when
\* armed, whatever the remote does.
C2_EventuallySettles ==
  \A i \in Inv : (pc[i] \in {"awaitFetch", "awaitJson"}) ~> (pc[i] = "done")

\* C3: the result array has as many elements as the question batch, on
\* the remote path and on the fallback path.
C3_SameLength ==
  \A i \in Inv : pc[i] = "done" => Len(results[i]) = Len(questions[i])

\* the remote sent more answers than the batch of two has questions
C3_Witness ==
  /\ \E i \in Inv :
       /\ path[i] = "remote"
       /\ data[i].answers.t = "array"
       /\ Len(data[i].answers.a) > Len(questions[i])
       /\ Len(results[i]) = 2

\* C4: results are index-aligned: result k carries question k; on the
\* remote path it carries remote answer k when that is a non-empty string;
\* on the fallback path it carries the canned answer selected for question k.
C4_IndexAligned ==
  \A i \in Inv : pc[i] = "done" =>
    \A k \in 1..Len(questions[i]) :
      /\ k \in DOMAIN results[i]
      /\ results[i][k].question = questions[i][k]
      /\ path[i] = "remote" /\ data[i].answers.t = "array"
           /\ k <= Len(data[i].answers.a)
           /\ data[i].answers.a[k].t = "string"
           /\ data[i].answers.a[k].s /= << >>
           => results[i][k].answer = data[i].answers.a[k]
      /\ path[i] = "fallback"
           => results[i][k].answer = Str(MockResponse(questions[i][k]).answer)

\* two different questions got two different remote answers
C4_Witness ==
  \E i \in Inv :
    /\ path[i] = "remote"
    /\ Len(questions[i]) = 2
    /\ questions[i][1] /= questions[i][2]
    /\ data[i].answers.a = <<Str(A_LONG), Str(A_X)>>
    /\ results[i][1].answer = Str(A_LONG)
    /\ results[i][2].answer = Str(A_X)

\* C5: every confidence lies between 0.0 and 1.0.
C5_ConfidenceRange ==
  \A i \in Inv :
    \A k \in 1..Len(results[i]) :
      results[i][k].confidence >= 0 /\ results[i][k].confidence <= 100

\* a remote answer that earns both bonuses reaches 1.0
C5_Witness ==
  \E i \in Inv :
    /\ path[i] = "remote"
    /\ \E k \in 1..Len(results[i]) :
         results[i][k].answer = Str(A_LONG) /\ results[i][k].confidence = 100

\* C6: after a response whose status is not 2xx the body is not read and
\* the results are those of the fallback responder for the batch.
C6_NonSuccessStatus ==
  \A i \in Inv :
    response[i] /= NoResponse /\ response[i].status \notin 200..299 =>
      /\ ~response[i].bodyUsed
      /\ data[i] = NoBody
      /\ pc[i] = "done"
      /\ Content(results[i]) = FallbackContent(questions[i])

\* the remote answered HTTP 500
C6_Witness ==
  \E i \in Inv :
    /\ response[i].status = 500
    /\ pc[i] = "done"
    /\ path[i] = "fallback"

\* C7: a timer that fires while the fetch is pending aborts it; the abort
\* is caught and the results are those of the fallback responder, also
\* once the remote has answered the aborted request.
C7_TimeoutFallback ==
  \A i \in Inv :
    /\ timeoutId[i] = "fired" => request[i] \in {"aborted", "failed"}
    /\ request[i] = "aborted" =>
         /\ pc[i] = "done"
         /\ error[i] = AbortError
         /\ Content(results[i]) = FallbackContent(questions[i])

\* the remote answered after the abort
C7_Witness ==
  \E i \in Inv :
    /\ timeoutId[i] = "fired"
    /\ request[i] = "aborted"
    /\ late[i]
    /\ pc[i] = "done"

\* C8: on the remote path a position the answer sequence does not reach,
\* or where it holds the empty string, gets 'No answer provided' and
\* confidence 0.1; the positions that hold an answer keep it.
C8_MissingAnswer ==
  \A i \in Inv :
    path[i] = "remote" /\ data[i].answers.t = "array" =>
      \A k \in 1..Len(questions[i]) :
        LET a == data[i].answers.a IN
        /\ k > Len(a) \/ a[k] = Str(<< >>) =>
             /\ results[i][k].answer = Str(NO_ANSWER)
             /\ results[i][k].confidence = 10
        /\ k <= Len(a) /\ a[k].t = "string" /\ a[k].s /= << >> =>
             /\ results[i][k].answer = a[k]
             /\ results[i][k].confidence > 10

\* {answers: ["X"]} for a batch of two
C8_Witness ==
  \E i \in Inv :
    /\ path[i] = "remote"
    /\ Len(questions[i]) = 2
    /\ data[i].answers.a = <<Str(A_X)>>
    /\ results[i][1].answer = Str(A_X)
    /\ results[i][2].answer = Str(NO_ANSWER)

\* C9: a 2xx response whose body is not of the shape {answers: string[]}
\* yields the fallback results, none built from the body.
C9_MisShapedBodyFallsBack ==
  \A i \in Inv :
    pc[i] = "done" /\ data[i] /= NoBody /\ MisShaped(data[i]) =>
      /\ path[i] = "fallback"
      /\ Content(results[i]) = FallbackContent(questions[i])

toUpperCase(cs) ==
  [k \in 1..Len(cs) |->
     IF \E l \in 1..Len(LOWERCASE) : LOWERCASE[l] = cs[k]
       THEN UPPERCASE[CHOOSE l \in 1..Len(LOWERCASE) : LOWERCASE[l] = cs[k]]
       ELSE cs[k]]

\* the keyword groups in their priority order
KeywordGroups ==
  <<[keywords |-> {KW_GRACE_PERIOD, KW_PREMIUM_PAYMENT},
     answer |-> ANSWER_GRACE, confidence |-> 92],
    [keywords |-> {KW_MATERNITY, KW_PREGNANCY},
     answer |-> ANSWER_MATERNITY, confidence |-> 90],
    [keywords |-> {KW_WAITING_PERIOD, KW_PRE_EXISTING},
     answer |-> ANSWER_WAITING, confidence |-> 95],
    [keywords |-> {KW_ROOM_RENT, KW_ICU, KW_SUB_LIMIT},
     answer |-> ANSWER_ROOM, confidence |-> 88],
    [keywords |-> {KW_NO_CLAIM_DISCOUNT, KW_NCD},
     answer |-> ANSWER_NCD, confidence |-> 93],
    [keywords |-> {KW_CATARACT, KW_SURGERY},
     answer |-> ANSWER_CATARACT, confidence |-> 87],
    [keywords |-> {KW_AYUSH, KW_ALTERNATIVE_MEDICINE},
     answer |-> ANSWER_AYUSH, confidence |-> 85]>>

\* the groups a keyword of which the question contains, whatever the case
\* of its letters
MatchingGroups(q) ==
  {g \in 1..Len(KeywordGroups) :
     \E kw \in KeywordGroups[g].keywords :
        includes(toUpperCase(q), toUpperCase(kw))}

\* the answer and confidence the priority order assigns to a question
Expected(q) ==
  IF MatchingGroups(q) = {}
    THEN [answer |-> ANSWER_DEFAULT, confidence |-> 70]
    ELSE LET g == CHOOSE m \in MatchingGroups(q) :
                    \A n \in MatchingGroups(q) : m <= n
         IN  [answer |-> KeywordGroups[g].answer,
              confidence |-> KeywordGroups[g].confidence]

\* C11: the fallback responder gives every question, whatever the case of
\* its letters, the canned answer and confidence of the first keyword group
\* in priority order a keyword of which it contains, and the deferral
\* answer with 0.70 when none matches; a question with 'grace period' and
\* 'maternity' gets the grace-period answer with 0.92.
C11_KeywordPriority ==
  \A i \in Inv : path[i] = "fallback" =>
    \A k \in 1..Len(questions[i]) :
      LET q == questions[i][k] IN
      /\ results[i][k].answer = Str(Expected(q).answer)
      /\ results[i][k].confidence = Expected(q).confidence
      /\ q \in {Q_GRACE_MATERNITY, Q_MATERNITY_THEN_GRACE} =>
           /\ results[i][k].answer = Str(ANSWER_GRACE)
           /\ results[i][k].confidence = 92

\* an upper-case question that names maternity before grace period was
\* answered by the fallback responder
C11_Witness ==
  \E i \in Inv :
    /\ path[i] = "fallback"
    /\ questions[i] = <<Q_MATERNITY_THEN_GRACE>>
    /\ results[i][1].confidence = 92

\* C12: two invocations with the same question batch whose remote calls
\* fail, in the same or in different ways, return results that agree in
\* question, answer, confidence, sources and reasoning at every index.
C12_FallbackDeterministic ==
  \A i, j \in Inv :
    /\ path[i] = "fallback"
    /\ path[j] = "fallback"
    /\ questions[i] = questions[j]
    => Content(results[i]) = Content(results[j])

\* the same batch failed in two different ways at two different times
C12_Witness ==
  \E i, j \in Inv :
    /\ path[i] = "fallback"
    /\ path[j] = "fallback"
    /\ questions[i] = questions[j]
    /\ Len(questions[i]) = 2
    /\ error[i] = AbortError
    /\ error[j].name = "SyntaxError"
    /\ results[i][1].timestamp /= results[j][1].timestamp

\* C13: a remote-derived answer that is neither empty nor the sentinel
\* scores 0.6, plus 0.2 when it holds a digit, '%', 'months' or 'years',
\* plus 0.2 when it is longer than 100 characters, at most 1.0; a remote
\* result scores 0.1, 0.6, 0.8 or 1.0.
C13_RemoteScoring ==
  \A i \in Inv : path[i] = "remote" /\ data[i].answers.t = "array" =>
    \A k \in 1..Len(questions[i]) :
      /\ results[i][k].confidence \in {10, 60, 80, 100}
      /\ k <= Len(data[i].answers.a) =>
           LET a == data[i].answers.a[k]
               specific ==
                 \/ \E c \in 1..Len(a.s) : a.s[c] \in DIGITS
                 \/ includes(a.s, <<"%">>)
                 \/ includes(a.s, <<"m","o","n","t","h","s">>)
                 \/ includes(a.s, <<"y","e","a","r","s">>)
               long == a.t = "string" /\ Len(a.s) >= 101
           IN  a \notin {Str(<< >>), Str(NO_ANSWER)} =>
                 results[i][k].confidence =
                   Min(100, 60 + (IF specific THEN 20 ELSE 0)
                               + (IF long THEN 20 ELSE 0))

\* an answer of exactly 100 characters with a digit scored 0.8
C13_Witness ==
  \E i \in Inv :
    /\ path[i] = "remote"
    /\ results[i][1].answer = Str(A_100_DIGIT)
    /\ results[i][1].confidence = 80

\* the caller supplied a document reference: a string that is not empty
Supplied(i) == documentUrl[i].t = "string" /\ documentUrl[i].s /= << >>

C15_ReleasedOnReturn ==
  \A i \in Inv :
    pc[i] = "done" => timeoutId[i] /= "armed" /\ request[i] /= "pending"

\* everything the model keeps of one invocation
Local(i) ==
  <<pc[i], questions[i], documentUrl[i], sent[i], timeoutId[i], aborted[i],
    request[i], response[i], data[i], error[i], warned[i], results[i],
    path[i], late[i]>>

\* the results invocation i returns when it runs alone with its arguments
\* and with what its own remote did
Alone(i) ==
  IF RemoteFailed(i)
    THEN FallbackContent(questions[i])
    ELSE Content(MapResults(questions[i], data[i], documentUrl[i], 1))

\* C16: two interleaved invocations are independent: each returns what it
\* would return alone, a controller is aborted by its own timer only, and
\* no step of one invocation changes anything of the other.
C16_Independent ==
  /\ [](\A i \in Inv :
          /\ pc[i] = "done" => Content(results[i]) = Alone(i)
          /\ aborted[i] => timeoutId[i] = "fired"
          /\ request[i] = "aborted" => timeoutId[i] = "fired")
  /\ [][\E i \in Inv : \A j \in Inv \ {i} : Local(j)' = Local(j)]_vars

\* one invocation timed out while the other, with other arguments, got its
\* answers
C16_Witness ==
  \E i, j \in Inv :
    /\ i /= j
    /\ error[i] = AbortError
    /\ path[j] = "remote"
    /\ questions[i] /= questions[j]
    /\ documentUrl[i] /= documentUrl[j]
    /\ ~aborted[j]

\* the scoring rule of the specification, applied to an answer: 0.1 for
\* the empty answer and the sentinel, else 0.6 plus 0.2 for a digit, '%',
\* 'months' or 'years', plus 0.2 for more than 100 characters, at most 1.0
ScoringRule(a) ==
  IF a \in {Str(<< >>), Str(NO_ANSWER)}
    THEN 10
    ELSE LET specific ==
               \/ \E c \in 1..Len(a.s) : a.s[c] \in DIGITS
               \/ includes(a.s, <<"%">>)
               \/ includes(a.s, <<"m","o","n","t","h","s">>)
               \/ includes(a.s, <<"y","e","a","r","s">>)
             long == a.t = "string" /\ Len(a.s) >= 101
         IN  Min(100, 60 + (IF specific THEN 20 ELSE 0)
                         + (IF long THEN 20 ELSE 0))

\* C17, as claimed: on either path the confidence of a result is the
\* scoring rule applied to its answer.
C17_ScoringOnBothPaths ==
  \A i \in Inv : pc[i] = "done" =>
    \A k \in 1..Len(results[i]) :
      results[i][k].confidence = ScoringRule(results[i][k].answer)

\* C17, amended: the confidence of a remote result is the scoring rule
\* applied to its answer; the confidence of a fallback result is the fixed
\* value of the keyword group of its question (0.70 when none matches),
\* whatever the rule gives for the canned answer.
C17_ScoringOnRemotePath ==
  \A i \in Inv : pc[i] = "done" =>
    \A k \in 1..Len(results[i]) :
      /\ path[i] = "remote" =>
           results[i][k].confidence = ScoringRule(results[i][k].answer)
      /\ path[i] = "fallback" =>
           /\ results[i][k].confidence = Expected(questions[i][k]).confidence
           /\ results[i][k].confidence \in {70, 85, 87, 88, 90, 92, 93, 95}

\* a fallback result whose fixed confidence, 0.92, is not what the rule
\* gives for its answer, 0.8
C17_Witness ==
  \E i \in Inv :
    /\ path[i] = "fallback"
    /\ results[i][1].answer = Str(ANSWER_GRACE)
    /\ results[i][1].confidence = 92
    /\ ScoringRule(results[i][1].answer) = 80

\* C18: the request carries the caller's document reference when one is
\* supplied and the sample document otherwise, and every remote result has
\* the one label 'Uploaded Document' in the first case and 'Sample Policy
\* Document' in the second; the empty string is no reference for either.
C18_ReferenceAndLabel ==
  \A i \in Inv : pc[i] /= "idle" =>
    /\ Supplied(i) => sent[i][1].documents = documentUrl[i]
    /\ ~Supplied(i) => sent[i][1].documents = Str(SAMPLE_DOCUMENT)
    /\ path[i] = "remote" =>
         \A k \in 1..Len(results[i]) :
           /\ Supplied(i) => results[i][k].sources = <<"Uploaded Document">>
           /\ ~Supplied(i) => results[i][k].sources = <<"Sample Policy Document">>

\* an empty-string reference: the sample document was sent and named
C18_Witness ==
  \E i \in Inv :
    /\ path[i] = "remote"
    /\ documentUrl[i] = Str(<< >>)
    /\ sent[i][1].documents = Str(SAMPLE_DOCUMENT)
    /\ results[i][1].sources = <<"Sample Policy Document">>

\* the ready documents of DocumentUpload, in the order of the list
Ready == {k \in 1..Len(documents) : documents[k].status = "ready"}

FirstReady == CHOOSE k \in Ready : \A m \in Ready : k <= m

NonBlank(q) == \E k \in 1..Len(q) : q[k] \notin WHITESPACE

\* an invocation the page has made, whatever became of it
PageInvoked(i) ==
  /\ questions[i] /= << >>
  /\ \A k \in 1..Len(questions[i]) : NonBlank(questions[i][k])
  /\ Ready /= {}
  /\ \E k \in Ready : documentUrl[i] = Str(documents[k].url)
  /\ \A m \in 1..Len(sent[i]) :
       /\ sent[i][m].documents = documentUrl[i]
       /\ sent[i][m].documents /= Str(SAMPLE_DOCUMENT)
  /\ \A k \in 1..Len(results[i]) :
       results[i][k].sources /= <<"Sample Policy Document">>

\* C19: through the page, processQueries is invoked only with a non-empty
\* batch of non-blank questions while a document is ready, and with the URL
\* of the first ready document as it is at the moment of the submit; no
\* request of the page names the sample document, and no result on display
\* has the label 'Sample Policy Document'.
C19_PageInvocations ==
  /\ [](/\ \A i \in Inv : pc[i] /= "idle" => PageInvoked(i)
        /\ \A k \in 1..Len(shownResults) :
             shownResults[k].sources /= <<"Sample Policy Document">>)
  /\ [][\A i \in Inv :
          pc[i] = "idle" /\ pc'[i] /= "idle" =>
            /\ Ready /= {}
            /\ documentUrl'[i] = Str(documents[FirstReady].url)
            /\ questions'[i] =
                 SelectSeq(queries, LAMBDA q : NonBlank(q))]_vars

\* the second file became ready while the first was still uploading, a
\* field holding one space was left out of the batch, and the remote's
\* answer is on display with the label 'Uploaded Document'
C19_Witness ==
  /\ Len(documents) = 2
  /\ documents[1].status = "uploading"
  /\ documents[2].status = "ready"
  /\ Len(shownResults) = 1
  /\ shownResults[1].sources = <<"Uploaded Document">>
  /\ \E i \in Inv :
       /\ pc[i] = "done"
       /\ documentUrl[i] = Str(documents[2].url)
       /\ shownResults = results[i]
  /\ \E k \in 1..Len(queries) : queries[k] = <<" ">>

=============================================================================
